---- MODULE Spec2Model ----
(***************************************************************************)
(* Model of GitSavvy's tags dashboard (core/commands/tags.py): the         *)
(* refresh/render cycle, the selection-driven delete / push / view-log     *)
(* commands and the interactive create-tag flow.                           *)
(*                                                                         *)
(* Strings that the code measures, slices or splits are sequences of       *)
(* one-character strings, so offsets in the model are the character        *)
(* offsets of the view.  Every command handler and every deferred          *)
(* (set_timeout_async) task is one atomic action.                          *)
(***************************************************************************)
EXTENDS Integers, Sequences, FiniteSets, TLC

(* ---------------- bounds of the explored inputs ---------------- *)
MaxLocal == 2
MaxRemotes == 2
MaxQueue == 2
MaxSel == 2

(* ---------------- module constants (tags.py 9-59) ---------------- *)
TAG_DELETE_MESSAGE == "Tag deleted."
TAG_CREATE_PROMPT == "Enter tag:"
TAG_CREATE_MESSAGE_PROMPT == "Enter message:"
START_PUSH_MESSAGE == "Starting push..."
END_PUSH_MESSAGE == "Push complete."

LOCAL_TEMPLATE_0 ==
    <<"\n"," "," ","L","O","C","A","L",":","\n">>

LOCAL_TEMPLATE_1 ==
    <<"\n">>

REMOTE_TEMPLATE_0 ==
    <<"\n"," "," ","R","E","M","O","T","E"," ","(">>

REMOTE_TEMPLATE_1 ==
    <<")",":","\n">>

REMOTE_TEMPLATE_2 ==
    <<"\n">>

VIEW_HEADER_TEMPLATE_0 ==
    <<"\n"," "," ","B","R","A","N","C","H",":"," "," ">>

VIEW_HEADER_TEMPLATE_1 ==
    <<"\n"," "," ","R","O","O","T",":"," "," "," "," ">>

VIEW_HEADER_TEMPLATE_2 ==
    <<"\n"," "," ","H","E","A","D",":"," "," "," "," ">>

VIEW_HEADER_TEMPLATE_3 ==
    <<"\n">>

NO_TAGS_MESSAGE ==
    <<"\n"," "," ","Y","o","u","r"," ","r","e","p","o","s","i","t","o","r","y"," ","h","a","s",
      " ","n","o"," ","t","a","g","s",".","\n">>

LOADING_TAGS_MESSAGE ==
    <<"\n"," "," ","P","l","e","a","s","e"," ","s","t","a","n","d"," ","b","y"," ","w","h","i",
      "l","e"," ","f","e","t","c","h","i","n","g"," ","t","a","g","s"," ","f","r","o","m"," ",
      "r","e","m","o","t","e","(","s",")",".","\n">>

KEY_BINDINGS_MENU ==
    <<"\n"," "," ","#","#","#","#","#","#","#","#","#","#","#","#","#","\n"," "," ","#","#"," ",
      "A","C","T","I","O","N","S"," ","#","#","\n"," "," ","#","#","#","#","#","#","#","#","#",
      "#","#","#","#","\n","\n"," "," ","[","c","]"," ","c","r","e","a","t","e","\n"," "," ",
      "[","d","]"," ","d","e","l","e","t","e","\n"," "," ","[","p","]"," ","p","u","s","h"," ",
      "t","o"," ","r","e","m","o","t","e","\n"," "," ","[","P","]"," ","p","u","s","h"," ","a",
      "l","l"," ","t","a","g","s"," ","t","o"," ","r","e","m","o","t","e","\n"," "," ","[","l",
      "]"," ","v","i","e","w"," ","c","o","m","m","i","t","\n","\n"," "," ","#","#","#","#","#",
      "#","#","#","#","#","#","\n"," "," ","#","#"," ","O","T","H","E","R"," ","#","#","\n"," ",
      " ","#","#","#","#","#","#","#","#","#","#","#","\n","\n"," "," ","[","r","]"," ","r","e",
      "f","r","e","s","h"," ","s","t","a","t","u","s","\n","\n","-","\n">>

(* sha[:7] of line 131/140, line[4:] of line 202, ranges[:3] of line 194 *)
ShortHashLen == 7
IndentLen == 4
SectionSlice == 3

(* ---------------- the repository's data (inputs) ---------------- *)
HexDigits ==
    <<"a","b","c","d","e","f","0","1","2","3","4","5","6","7","8","9">>

Digits == <<"1","2","3","4","5","6","7","8","9">>

\* a full hash: longer than the short hash that is displayed
Sha(i) ==
    [k \in 1..Len(HexDigits) |-> HexDigits[((3 * i + k) % Len(HexDigits)) + 1]]

TagName(i) == <<"v", Digits[i]>>

\* a TagDetails item of get_tags: no `remote` attribute
TagEntry(i) == [sha |-> Sha(i), tag |-> TagName(i)]

AllRemotes ==
    << <<"o","r","i","g","i","n">>, <<"f","o","r","k">>, <<"u","p">>, <<"m">> >>

BranchStatuses == { <<"d","e","v">> }

RepoRoot == <<"/","r">>

HeadMsg == <<"c","0">>

LocalLists == { [i \in 1..n |-> TagEntry(i)] : n \in 0..MaxLocal }

\* a RemoteGroup item of get_tags: has a `remote` attribute
RemoteGroup(r, es) == [remote |-> r, entries |-> es]

\* the tags listed for the i-th remote
GroupEntries(i) == <<TagEntry(((i - 1) % MaxLocal) + 1)>>

\* one group per configured remote
GroupsOf(rs) == [i \in 1..Len(rs) |-> RemoteGroup(rs[i], GroupEntries(i))]

RemoteLists == { SubSeq(AllRemotes, 1, n) : n \in 0..MaxRemotes }

(* ---------------- string helpers ---------------- *)
Take(s, n) == SubSeq(s, 1, IF n < Len(s) THEN n ELSE Len(s))

Drop(s, n) == SubSeq(s, n + 1, Len(s))

RECURSIVE Join(_, _)
Join(sep, parts) ==
    IF parts = <<>> THEN <<>>
    ELSE IF Len(parts) = 1 THEN parts[1]
    ELSE parts[1] \o sep \o Join(sep, Tail(parts))

Region(a, b) == [a |-> a, b |-> b]

(* ---------------- GsTagsRefreshCommand.get_contents ---------------- *)
VIEW_HEADER(bs) ==
    VIEW_HEADER_TEMPLATE_0 \o bs \o VIEW_HEADER_TEMPLATE_1 \o RepoRoot
      \o VIEW_HEADER_TEMPLATE_2 \o HeadMsg \o VIEW_HEADER_TEMPLATE_3

LOCAL_TEMPLATE(lines) == LOCAL_TEMPLATE_0 \o lines \o LOCAL_TEMPLATE_1

REMOTE_TEMPLATE(remote, lines) ==
    REMOTE_TEMPLATE_0 \o remote \o REMOTE_TEMPLATE_1 \o lines \o REMOTE_TEMPLATE_2

\* "    {} {}".format(t.sha[:7], t.tag)
tag_line(t) == <<" "," "," "," ">> \o Take(t.sha, ShortHashLen) \o <<" ">> \o t.tag

tag_lines(entries) ==
    Join(<<"\n">>, [i \in 1..Len(entries) |-> tag_line(entries[i])])

IsRemote(item) == "remote" \in DOMAIN item

SelectItems(tag_list, wantRemote) ==
    LET F[i \in 0..Len(tag_list)] ==
            IF i = 0 THEN <<>>
            ELSE IF IsRemote(tag_list[i]) = wantRemote
                 THEN Append(F[i - 1], tag_list[i]) ELSE F[i - 1]
    IN F[Len(tag_list)]

sort_tag_entries(tag_list) ==
    <<SelectItems(tag_list, FALSE), SelectItems(tag_list, TRUE)>>

\* a variant whose region ends one character late
get_region_long(cursor, new_text) ==
    [region |-> Region(cursor, cursor + Len(new_text) + 1),
     cursor |-> cursor + Len(new_text)]

\* the closure get_region: the span of new_text at the cursor, and the
\* cursor advanced past it
get_region(cursor, new_text) ==
    [region |-> Region(cursor, cursor + Len(new_text)),
     cursor |-> cursor + Len(new_text)]

\* the assignment of line 144: the region of the group just rendered
remote_region_after(previous, region) == region

\* lines 138-145: st is [cursor, view_text, remote_region]
remote_loop(remotes, st0) ==
    LET F[i \in 0..Len(remotes)] ==
            IF i = 0 THEN st0
            ELSE LET st == F[i - 1]
                     remote_text ==
                         REMOTE_TEMPLATE(remotes[i].remote,
                                         tag_lines(remotes[i].entries))
                     g == get_region(st.cursor, remote_text)
                 IN [cursor |-> g.cursor,
                     view_text |-> st.view_text \o remote_text,
                     remote_region |->
                         remote_region_after(st.remote_region, g.region)]
    IN F[Len(remotes)]

get_contents_loading(bs) ==
    VIEW_HEADER(bs) \o LOADING_TAGS_MESSAGE \o KEY_BINDINGS_MENU

\* a variant without the fallback of line 147
text_or_nothing(view_text) == view_text

\* line 147: view_text or NO_TAGS_MESSAGE
text_or_no_tags(view_text) ==
    IF view_text # <<>> THEN view_text ELSE NO_TAGS_MESSAGE

get_contents(bs, tag_list) ==
    LET header == VIEW_HEADER(bs)
        local == sort_tag_entries(tag_list)[1]
        remotes == sort_tag_entries(tag_list)[2]
        local_text == LOCAL_TEMPLATE(tag_lines(local))
        g == get_region(Len(header), local_text)
        st1 == IF local # <<>>
               THEN [cursor |-> g.cursor, view_text |-> local_text,
                     remote_region |-> Region(0, 0)]
               ELSE [cursor |-> Len(header), view_text |-> <<>>,
                     remote_region |-> Region(0, 0)]
        local_region == IF local # <<>> THEN g.region ELSE Region(0, 0)
        st2 == remote_loop(remotes, st1)
        view_text == text_or_no_tags(st2.view_text)
    IN [contents |-> header \o view_text \o KEY_BINDINGS_MENU,
        ranges |-> <<local_region, st2.remote_region>>]

(* ---------------- the view: lines and selections ---------------- *)
SetMax(S) == CHOOSE x \in S : \A y \in S : y <= x

SetMin(S) == CHOOSE x \in S : \A y \in S : x <= y

RECURSIVE SortedSeq(_)
SortedSeq(S) ==
    IF S = {} THEN <<>> ELSE <<SetMin(S)>> \o SortedSeq(S \ {SetMin(S)})

\* offsets are 0-based: the character at offset p is text[p + 1]
LineStarts(text) == {0} \cup { i \in 1..Len(text) : text[i] = "\n" }

RECURSIVE line_begin(_, _)
line_begin(text, p) ==
    IF p = 0 \/ text[p] = "\n" THEN p ELSE line_begin(text, p - 1)

RECURSIVE line_stop(_, _)
line_stop(text, p) ==
    IF p >= Len(text) THEN Len(text)
    ELSE IF text[p + 1] = "\n" THEN p + 1 ELSE line_stop(text, p + 1)

\* view.full_line(point): the line containing the point, with its newline
full_line(text, p) == Region(line_begin(text, p), line_stop(text, p))

substr(text, r) == SubSeq(text, r.a + 1, r.b)

\* str.split("\n")
RECURSIVE split_lines(_)
split_lines(s) ==
    LET nl == { i \in 1..Len(s) : s[i] = "\n" }
    IN IF nl = {} THEN <<s>>
       ELSE <<SubSeq(s, 1, SetMin(nl) - 1)>> \o split_lines(Drop(s, SetMin(nl)))

region_within_regions(all_outer, inner) ==
    \E i \in 1..Len(all_outer) :
        all_outer[i].a <= inner.a /\ all_outer[i].b >= inner.b

\* util.view.get_lines_from_regions: the full lines of the selected
\* positions that lie within one of the valid ranges, in position order
get_lines_from_regions(text, sel, valid_ranges) ==
    LET ps == SortedSeq(sel)
        F[i \in 0..Len(ps)] ==
            IF i = 0 THEN <<>>
            ELSE LET fl == full_line(text, ps[i])
                 IN IF region_within_regions(valid_ranges, fl)
                    THEN F[i - 1] \o split_lines(substr(text, fl))
                    ELSE F[i - 1]
    IN F[Len(ps)]

Whitespace == {" ", "\n", "\t"}

RECURSIVE strip_left(_)
strip_left(s) ==
    IF s # <<>> /\ Head(s) \in Whitespace THEN strip_left(Tail(s)) ELSE s

RECURSIVE strip_right(_)
strip_right(s) ==
    IF s # <<>> /\ s[Len(s)] \in Whitespace
    THEN strip_right(SubSeq(s, 1, Len(s) - 1)) ELSE s

strip(s) == strip_right(strip_left(s))

\* str.split(): the maximal runs of non-whitespace characters
RECURSIVE split_ws(_)
split_ws(s) ==
    LET t == strip_left(s)
        ws == { i \in 1..Len(t) : t[i] \in Whitespace }
    IN IF t = <<>> THEN <<>>
       ELSE IF ws = {} THEN <<t>>
       ELSE <<SubSeq(t, 1, SetMin(ws) - 1)>> \o split_ws(Drop(t, SetMin(ws)))

\* line[4:].strip().split()
parse_line(line) == split_ws(strip(Drop(line, IndentLen)))

\* tuple(line[4:].strip().split() for line in lines if line)
parse_items(lines) ==
    LET F[i \in 0..Len(lines)] ==
            IF i = 0 THEN <<>>
            ELSE IF lines[i] # <<>> THEN Append(F[i - 1], parse_line(lines[i]))
                 ELSE F[i - 1]
    IN F[Len(lines)]

\* view_section_ranges[self.view.id()][:3]
valid_ranges_of(ranges) == Take(ranges, SectionSlice)

\* lines 194-202 (and 276-284, 338-346): the items of a selection
resolve_selection(text, sel, ranges) ==
    parse_items(get_lines_from_regions(text, sel, valid_ranges_of(ranges)))

\* the end of the content of the line that starts at s
line_end(text, s) ==
    LET fl == full_line(text, s)
    IN IF fl.b > s /\ text[fl.b] = "\n" THEN fl.b - 1 ELSE fl.b

\* Cursor positions tried, one per line: every line that touches the span
\* from the last character of the header to the end of the listing or of the
\* stored ranges, whichever is later.  The lines further up or down lie
\* outside every range, as the last header line does.
CursorPositions(text, header_len, ranges) ==
    LET body_end == Len(text) - Len(KEY_BINDINGS_MENU)
        ends == {body_end} \cup { ranges[i].b : i \in 1..Len(ranges) }
        first == IF header_len > 0 THEN header_len - 1 ELSE 0
        last == IF SetMax(ends) > Len(text) THEN Len(text) ELSE SetMax(ends)
    IN IF text = <<>> THEN {0}
       ELSE { line_end(text, s) :
                s \in { q \in LineStarts(text) :
                          /\ q <= last
                          /\ full_line(text, q).b > first } }

RECURSIVE SelectionsUpTo(_, _)
SelectionsUpTo(P, n) ==
    IF n = 0 THEN {{}}
    ELSE SelectionsUpTo(P, n - 1)
           \cup { S \cup {p} : S \in SelectionsUpTo(P, n - 1), p \in P }

\* the selections tried: at most MaxSel cursors, each on a line of the view
\* Selections tried: at most MaxSel cursors on non-blank lines inside the
\* valid ranges, and every single cursor of the window.  A cursor on a blank
\* line or outside the ranges adds no line to what a selection resolves to.
Selections(text, header_len, ranges) ==
    LET all == CursorPositions(text, header_len, ranges)
        inside == { p \in all :
                      /\ region_within_regions(valid_ranges_of(ranges),
                                               full_line(text, p))
                      /\ line_begin(text, p) # p }
    IN SelectionsUpTo(inside, MaxSel) \cup { {p} : p \in all }

(* ---------------- the repository client ---------------- *)
HasLocalTag(tl, name) ==
    \E i \in 1..Len(tl) : ~IsRemote(tl[i]) /\ tl[i].tag = name

RemoveLocalTag(tl, name) ==
    SelectSeq(tl, LAMBDA it : IsRemote(it) \/ it.tag # name)

NameIndex(name) == CHOOSE i \in 1..Len(Digits) : TagName(i) = name

\* git lists tags sorted by name, the local tags before the remote groups
InsertLocalTag(tl, e) ==
    LET before == SelectSeq(tl, LAMBDA it :
                      ~IsRemote(it) /\ NameIndex(it.tag) < NameIndex(e.tag))
        after == SelectSeq(tl, LAMBDA it :
                      IsRemote(it) \/ NameIndex(it.tag) > NameIndex(e.tag))
    IN before \o <<e>> \o after

\* `git tag -d name`: fails when there is no such local tag
git_tag_delete(tl, name) ==
    IF HasLocalTag(tl, name)
    THEN [ok |-> TRUE, tag_list |-> RemoveLocalTag(tl, name)]
    ELSE [ok |-> FALSE, tag_list |-> tl]

\* `git tag name -F -`: fails when the tag exists
git_tag_create(tl, name) ==
    IF HasLocalTag(tl, name) \/ ~(\E i \in 1..MaxLocal : TagName(i) = name)
    THEN [ok |-> FALSE, tag_list |-> tl]
    ELSE [ok |-> TRUE, tag_list |-> InsertLocalTag(tl, TagEntry(NameIndex(name)))]

\* the default_tag_message setting, formatted with tag_name
default_tag_message(name) == <<"T","a","g"," ">> \o name

(* ---------------- effects of a handler ---------------- *)
Ev(k, a, ok, stdin) == [k |-> k, a |-> a, ok |-> ok, stdin |-> stdin]

Status(msg) == Ev("status", <<msg>>, TRUE, <<>>)

Fault(name) == Ev("fault", <<name>>, FALSE, <<>>)

GitCall(args, ok, stdin) == Ev("git", args, ok, stdin)

RefreshCall == Ev("refresh", <<>>, TRUE, <<>>)

\* GitCommand.git raises when the command fails
git_raises(ok) == IF ok THEN <<>> ELSE <<Fault("GitSavvyError")>>

Faulted(tr) == tr # <<>> /\ tr[Len(tr)].k = "fault"

Op(name, its, n, text, flag) ==
    [name |-> name, items |-> its, n |-> n, text |-> text, flag |-> flag]

NoOp == Op("init", <<>>, 0, <<>>, FALSE)

(* ---------------- state ---------------- *)
VARIABLES
    tag_list,            \* what get_tags returns: local tags, then remote groups
    git_remotes,         \* the keys of get_remotes
    branch_status,       \* get_branch_status
    view_text,           \* the text of the tags view
    view_section_ranges, \* the module-level dict, keyed by view id
    shown,               \* which get_contents result the view displays
    async_queue,         \* callbacks handed to sublime.set_timeout_async
    input_panel,         \* the input panel of GsTagCreateCommand, if open
    tag_name,            \* GsTagCreateCommand.tag_name
    has_items,           \* hasattr(GsTagPushCommand instance, "items")
    items,               \* GsTagPushCommand.items
    push_all,            \* GsTagPushCommand.push_all
    remotes,             \* GsTagPushCommand.remotes
    quick_panel,         \* the entries of the open remote quick panel
    op,                  \* the handler that ran last, with its inputs
    trace                \* what that handler did, in order

vars == <<tag_list, git_remotes, branch_status, view_text, view_section_ranges,
          shown, async_queue, input_panel, tag_name, has_items, items,
          push_all, remotes, quick_panel, op, trace>>

repoVars == <<tag_list, git_remotes, branch_status>>

viewVars == <<view_text, view_section_ranges, shown>>

createVars == <<input_panel, tag_name>>

pushVars == <<has_items, items, push_all, remotes, quick_panel>>

ViewId == 1

\* GsShowTagsCommand.run: an empty view whose refresh has been requested
Init ==
    /\ \E loc \in LocalLists, rs \in RemoteLists :
         /\ git_remotes = rs
         /\ tag_list = loc \o GroupsOf(rs)
    /\ branch_status \in BranchStatuses
    /\ view_text = <<>>
    /\ view_section_ranges = << >>
    /\ shown = [kind |-> "none", ranges |-> <<>>, tag_list |-> <<>>]
    /\ async_queue = <<"refresh">>
    /\ input_panel = "closed"
    /\ tag_name = <<>>
    /\ has_items = FALSE
    /\ items = <<>>
    /\ push_all = FALSE
    /\ remotes = <<>>
    /\ quick_panel = <<>>
    /\ op = NoOp
    /\ trace = <<>>

(* ---------------- GsTagsRefreshCommand ---------------- *)
\* run (also reached from on_activated): defer run_async
GsTagsRefresh_run ==
    /\ Len(async_queue) < MaxQueue
    /\ async_queue' = Append(async_queue, "refresh")
    /\ op' = Op("refresh.run", <<>>, 0, <<>>, FALSE)
    /\ trace' = <<>>
    /\ UNCHANGED <<repoVars, viewVars, createVars, pushVars>>

\* a variant in which showing the placeholder empties the dict
ranges_dropped_on_loading(ranges) == << >>

\* the ranges left in view_section_ranges while the placeholder is shown
ranges_after_loading(ranges) == ranges

\* run_async: show the loading text, defer append_tags
GsTagsRefresh_run_async ==
    /\ async_queue # <<>> /\ Head(async_queue) = "refresh"
    /\ view_text' = get_contents_loading(branch_status)
    /\ view_section_ranges' = ranges_after_loading(view_section_ranges)
    /\ shown' = [kind |-> "loading", ranges |-> <<>>, tag_list |-> <<>>]
    /\ async_queue' = Append(Tail(async_queue), "append_tags")
    /\ op' = Op("refresh.run_async", <<>>, 0, <<>>, FALSE)
    /\ trace' = <<>>
    /\ UNCHANGED <<repoVars, createVars, pushVars>>

\* a variant that keeps the ranges a view already has
store_ranges_once(d, id, ranges) ==
    IF id \in DOMAIN d THEN d ELSE (id :> ranges) @@ d

\* line 155: view_section_ranges[self.view.id()] = ranges
store_ranges(d, id, ranges) == (id :> ranges) @@ d

\* append_tags: store the ranges, then show the full text
GsTagsRefresh_append_tags ==
    /\ async_queue # <<>> /\ Head(async_queue) = "append_tags"
    /\ LET c == get_contents(branch_status, tag_list)
       IN /\ view_section_ranges' = store_ranges(view_section_ranges, ViewId,
                                                 c.ranges)
          /\ view_text' = c.contents
          /\ shown' = [kind |-> "full", ranges |-> c.ranges, tag_list |-> tag_list]
    /\ async_queue' = Tail(async_queue)
    /\ op' = Op("append_tags", <<>>, 0, <<>>, FALSE)
    /\ trace' = <<>>
    /\ UNCHANGED <<repoVars, createVars, pushVars>>

(* ---------------- GsTagDeleteCommand ---------------- *)
\* a variant that names the hash instead of the tag
delete_arg_hash(item) == item[1]

\* the argument of `git tag -d` at line 206
delete_arg(item) == item[2]

\* what follows the loop at lines 207-208
delete_epilogue == <<RefreshCall, Status(TAG_DELETE_MESSAGE)>>

\* a variant without the `if items:` test of line 204
delete_items_unguarded(tl, its) ==
    [tag_list |-> tl,
     trace |-> [i \in 1..Len(its) |->
                   GitCall(<<"tag", "-d", delete_arg(its[i])>>, TRUE, <<>>)]
               \o delete_epilogue]

\* lines 204-208 on the resolved items: st is [tag_list, trace]
delete_items(tl, its) ==
    LET F[i \in 0..Len(its)] ==
            IF i = 0 THEN [tag_list |-> tl, trace |-> <<>>]
            ELSE LET st == F[i - 1]
                     r == git_tag_delete(st.tag_list, delete_arg(its[i]))
                 IN IF Faulted(st.trace) THEN st
                    ELSE IF Len(its[i]) < 2
                    THEN [st EXCEPT !.trace = Append(@, Fault("IndexError"))]
                    ELSE [tag_list |-> r.tag_list,
                          trace |-> Append(st.trace,
                                       GitCall(<<"tag", "-d", delete_arg(its[i])>>,
                                               r.ok, <<>>))
                                    \o git_raises(r.ok)]
        loop == F[Len(its)]
    IN IF its = <<>> \/ Faulted(loop.trace) THEN loop
       ELSE [loop EXCEPT !.trace = @ \o delete_epilogue]

RefreshCalls(tr) == Len(SelectSeq(tr, LAMBDA e : e.k = "refresh"))

\* the deferred run_async of each gs_tags_refresh the handler requested
Requested(tr) == [i \in 1..RefreshCalls(tr) |-> "refresh"]

GsTagDelete_run(sel) ==
    IF ViewId \notin DOMAIN view_section_ranges
    THEN /\ op' = Op("delete.run", <<>>, 0, <<>>, FALSE)
         /\ trace' = <<Fault("KeyError")>>
         /\ UNCHANGED <<repoVars, viewVars, async_queue, createVars, pushVars>>
    ELSE LET its == resolve_selection(view_text, sel, view_section_ranges[ViewId])
             r == delete_items(tag_list, its)
         IN /\ Len(async_queue) + RefreshCalls(r.trace) <= MaxQueue
            /\ tag_list' = r.tag_list
            /\ async_queue' = async_queue \o Requested(r.trace)
            /\ op' = Op("delete.run", its, 0, <<>>, FALSE)
            /\ trace' = r.trace
            /\ UNCHANGED <<git_remotes, branch_status, viewVars, createVars,
                           pushVars>>

(* ---------------- GsTagViewLogCommand ---------------- *)
\* a variant without the `break` of line 351
view_log_items_all(its, ok) ==
    [i \in 1..Len(its) |->
        GitCall(<<"log", "-1", "--pretty=medium", its[i][1]>>, ok, <<>>)]

\* lines 348-351: only the first item is used
view_log_items(its, ok) ==
    IF its = <<>> THEN <<>>
    ELSE IF Len(its[1]) < 1 THEN <<Fault("IndexError")>>
    ELSE <<GitCall(<<"log", "-1", "--pretty=medium", its[1][1]>>, ok, <<>>)>>
           \o git_raises(ok)

GsTagViewLog_run(sel, ok) ==
    /\ IF ViewId \notin DOMAIN view_section_ranges
       THEN /\ op' = Op("view_log.run", <<>>, 0, <<>>, FALSE)
            /\ trace' = <<Fault("KeyError")>>
       ELSE LET its == resolve_selection(view_text, sel,
                                         view_section_ranges[ViewId])
            IN /\ op' = Op("view_log.run", its, 0, <<>>, FALSE)
               /\ trace' = view_log_items(its, ok)
    /\ UNCHANGED <<repoVars, viewVars, async_queue, createVars, pushVars>>

(* ---------------- GsTagCreateCommand ---------------- *)
GsTagCreate_run ==
    /\ Len(async_queue) < MaxQueue
    /\ async_queue' = Append(async_queue, "create")
    /\ op' = Op("create.run", <<>>, 0, <<>>, FALSE)
    /\ trace' = <<>>
    /\ UNCHANGED <<repoVars, viewVars, createVars, pushVars>>

GsTagCreate_run_async ==
    /\ async_queue # <<>> /\ Head(async_queue) = "create"
    /\ async_queue' = Tail(async_queue)
    /\ input_panel' = "tag"
    /\ op' = Op("create.run_async", <<>>, 0, <<>>, FALSE)
    /\ trace' = <<Ev("input_panel", <<TAG_CREATE_PROMPT>>, TRUE, <<>>)>>
    /\ UNCHANGED <<repoVars, viewVars, tag_name, pushVars>>

\* `if not tag_name: return` of line 238
tag_name_cancelled(name) == name = <<>>

GsTagCreate_on_entered_tag(name) ==
    /\ input_panel = "tag"
    /\ IF tag_name_cancelled(name)
       THEN /\ input_panel' = "closed"
            /\ trace' = <<>>
            /\ UNCHANGED tag_name
       ELSE /\ tag_name' = name
            /\ input_panel' = "message"
            /\ trace' = <<Ev("input_panel", <<TAG_CREATE_MESSAGE_PROMPT>>,
                             TRUE, <<>>)>>
    /\ op' = Op("create.on_entered_tag", <<>>, 0, name, FALSE)
    /\ UNCHANGED <<repoVars, viewVars, async_queue, pushVars>>

\* what the message prompt hands to on_entered_message: the entered text,
\* or the cancel signal -1
Message(cancel, text) == [cancel |-> cancel, text |-> text]

\* a variant that never sees the cancel signal
message_never_cancelled(message) == FALSE

\* `if message == -1: return` of line 257
message_cancelled(message) == message.cancel

\* a variant without the substitution of lines 260-262
message_as_entered(message, name) == message.text

\* lines 260-262
message_or_default(message, name) ==
    IF message.text = <<>> THEN default_tag_message(name) ELSE message.text

GsTagCreate_on_entered_message(message) ==
    /\ input_panel = "message"
    /\ input_panel' = "closed"
    /\ IF message_cancelled(message)
       THEN /\ trace' = <<>>
            /\ UNCHANGED tag_list
       ELSE LET r == git_tag_create(tag_list, tag_name)
            IN /\ tag_list' = r.tag_list
               /\ trace' = <<GitCall(<<"tag", tag_name, "-F", "-">>, r.ok,
                                     message_or_default(message, tag_name))>>
                             \o git_raises(r.ok)
    /\ op' = Op("create.on_entered_message", <<>>, 0, message.text,
                message.cancel)
    /\ UNCHANGED <<git_remotes, branch_status, viewVars, async_queue, tag_name,
                   pushVars>>

TagNameInputs == {<<>>} \cup { TagName(i) : i \in 1..MaxLocal }

MessageInputs ==
    { Message(TRUE, <<>>), Message(FALSE, <<>>), Message(FALSE, <<"m","s","g">>) }

(* ---------------- GsTagPushCommand ---------------- *)
\* run: resolve the selection unless push_all, then defer run_async
GsTagPush_run(sel, pa) ==
    IF ~pa /\ ViewId \notin DOMAIN view_section_ranges
    THEN /\ op' = Op("push.run", <<>>, 0, <<>>, pa)
         /\ trace' = <<Fault("KeyError")>>
         /\ UNCHANGED <<repoVars, viewVars, async_queue, createVars, pushVars>>
    ELSE /\ Len(async_queue) < MaxQueue
         /\ IF pa THEN UNCHANGED <<has_items, items>>
            ELSE /\ has_items' = TRUE
                 /\ items' = resolve_selection(view_text, sel,
                                               view_section_ranges[ViewId])
         /\ push_all' = pa
         /\ async_queue' = Append(async_queue, "push")
         /\ op' = Op("push.run", IF pa THEN <<>> ELSE items', 0, <<>>, pa)
         /\ trace' = <<>>
         /\ UNCHANGED <<repoVars, viewVars, createVars, remotes, quick_panel>>

\* lines 297-304: NO_REMOTES_MESSAGE is not a name of the module
show_remotes_panel(rs) ==
    IF rs = <<>> THEN [panel |-> <<>>, trace |-> <<Fault("NameError")>>]
    ELSE [panel |-> rs, trace |-> <<Ev("quick_panel", rs, TRUE, <<>>)>>]

GsTagPush_run_async ==
    /\ async_queue # <<>> /\ Head(async_queue) = "push"
    /\ async_queue' = Tail(async_queue)
    /\ remotes' = git_remotes
    /\ LET r == show_remotes_panel(git_remotes)
       IN /\ quick_panel' = (IF r.panel = <<>> THEN quick_panel ELSE r.panel)
          /\ trace' = <<Ev("get_remotes", <<>>, TRUE, <<>>)>> \o r.trace
    /\ op' = Op("push.run_async", <<>>, 0, <<>>, push_all)
    /\ UNCHANGED <<repoVars, viewVars, createVars, has_items, items, push_all>>

\* lines 321-324: the refs argument, or a fault when an item has no name
RECURSIVE push_refs(_)
push_refs(its) ==
    IF its = <<>> THEN <<>>
    ELSE <<"r","e","f","s","/","t","a","g","s","/">> \o its[1][2] \o <<":">>
           \o push_refs(Tail(its))

items_have_names(its) == \A i \in 1..Len(its) : Len(its[i]) >= 2

\* the push of lines 318-326
push_call(pa, has, its, selected_remote, ok) ==
    IF pa
    THEN <<GitCall(<<"push", selected_remote, "--tags">>, ok, <<>>)>>
           \o git_raises(ok)
    ELSE IF has /\ its # <<>>
    THEN IF ~items_have_names(its) THEN <<Fault("IndexError")>>
         ELSE <<GitCall(<<"push", selected_remote,
                          SubSeq(push_refs(its), 1, Len(push_refs(its)) - 1)>>,
                        ok, <<>>)>>
                \o git_raises(ok)
    ELSE <<>>

\* a variant that reports completion before pushing
select_remote_early_end(remote_index, rs, pa, has, its, ok) ==
    IF remote_index = -1 THEN <<>>
    ELSE IF remote_index + 1 > Len(rs) THEN <<Fault("IndexError")>>
    ELSE <<Status(START_PUSH_MESSAGE), Status(END_PUSH_MESSAGE)>>
           \o push_call(pa, has, its, rs[remote_index + 1], ok)

\* on_select_remote, lines 312-328
select_remote(remote_index, rs, pa, has, its, ok) ==
    IF remote_index = -1 THEN <<>>
    ELSE IF remote_index + 1 > Len(rs) THEN <<Fault("IndexError")>>
    ELSE LET call == push_call(pa, has, its, rs[remote_index + 1], ok)
         IN <<Status(START_PUSH_MESSAGE)>> \o call
              \o (IF Faulted(call) THEN <<>> ELSE <<Status(END_PUSH_MESSAGE)>>)

GsTagPush_on_select_remote(remote_index, ok) ==
    /\ quick_panel # <<>>
    /\ quick_panel' = <<>>
    /\ trace' = select_remote(remote_index, remotes, push_all, has_items,
                              items, ok)
    /\ op' = Op("push.on_select_remote", items, remote_index, <<>>, push_all)
    /\ UNCHANGED <<repoVars, viewVars, async_queue, createVars, has_items,
                   items, push_all, remotes>>

(* ---------------- the whole panel ---------------- *)
StoredRanges ==
    IF ViewId \in DOMAIN view_section_ranges THEN view_section_ranges[ViewId]
    ELSE <<>>

\* self.view.sel() when a command runs
ViewSelections ==
    Selections(view_text, Len(VIEW_HEADER(branch_status)), StoredRanges)

Next ==
    \/ GsTagsRefresh_run
    \/ GsTagsRefresh_run_async
    \/ GsTagsRefresh_append_tags
    \/ \E sel \in ViewSelections : GsTagDelete_run(sel)
    \/ \E sel \in ViewSelections, ok \in BOOLEAN : GsTagViewLog_run(sel, ok)
    \/ GsTagCreate_run
    \/ GsTagCreate_run_async
    \/ \E name \in TagNameInputs : GsTagCreate_on_entered_tag(name)
    \/ \E message \in MessageInputs : GsTagCreate_on_entered_message(message)
    \/ \E sel \in ViewSelections, pa \in BOOLEAN : GsTagPush_run(sel, pa)
    \/ GsTagPush_run_async
    \/ \E i \in -1..(Len(quick_panel) - 1), ok \in BOOLEAN :
         GsTagPush_on_select_remote(i, ok)

Spec == Init /\ [][Next]_vars

(* ---------------- the parts of the panel on their own ---------------- *)
\* the report: refresh, delete and view-log
NextReport ==
    \/ GsTagsRefresh_run
    \/ GsTagsRefresh_run_async
    \/ GsTagsRefresh_append_tags
    \/ \E sel \in ViewSelections : GsTagDelete_run(sel)
    \/ \E sel \in ViewSelections, ok \in BOOLEAN : GsTagViewLog_run(sel, ok)

SpecReport == Init /\ [][NextReport]_vars

\* deleting from a report that is refreshed after each deletion
NextDelete ==
    \/ GsTagsRefresh_run_async
    \/ GsTagsRefresh_append_tags
    \/ \E sel \in ViewSelections : GsTagDelete_run(sel)

SpecDelete == Init /\ [][NextDelete]_vars

\* pushing from the report
NextPush ==
    \/ GsTagsRefresh_run
    \/ GsTagsRefresh_run_async
    \/ GsTagsRefresh_append_tags
    \/ \E sel \in ViewSelections, pa \in BOOLEAN : GsTagPush_run(sel, pa)
    \/ GsTagPush_run_async
    \/ \E i \in -1..(Len(quick_panel) - 1), ok \in BOOLEAN :
         GsTagPush_on_select_remote(i, ok)

SpecPush == Init /\ [][NextPush]_vars

\* pushing all tags
NextPushAll ==
    \/ GsTagsRefresh_run_async
    \/ GsTagsRefresh_append_tags
    \/ GsTagPush_run({}, TRUE)
    \/ GsTagPush_run_async
    \/ \E i \in -1..(Len(quick_panel) - 1), ok \in BOOLEAN :
         GsTagPush_on_select_remote(i, ok)

SpecPushAll == Init /\ [][NextPushAll]_vars

\* one cursor on a line of the view
SingleSelections == { sel \in ViewSelections : Cardinality(sel) = 1 }

\* refreshing again and again, with deletions of one tag in between
NextRefresh ==
    \/ GsTagsRefresh_run
    \/ GsTagsRefresh_run_async
    \/ GsTagsRefresh_append_tags
    \/ \E sel \in SingleSelections : GsTagDelete_run(sel)

SpecRefresh == Init /\ [][NextRefresh]_vars

\* the id of another tags view of the same process
OtherViewId == 2

\* what the module-level dict holds when this view opens: nothing, or the
\* ranges an earlier refresh stored for the other view
OtherEntries ==
    { << >>, (OtherViewId :> <<Region(44, 69), Region(0, 0)>>) }

\* GsShowTagsCommand.run in a process that may have another tags view
InitFrame ==
    /\ \E loc \in LocalLists, rs \in RemoteLists :
         /\ Len(loc) = 1 /\ Len(rs) = 1
         /\ git_remotes = rs
         /\ tag_list = loc \o GroupsOf(rs)
    /\ branch_status \in BranchStatuses
    /\ view_text = <<>>
    /\ view_section_ranges \in OtherEntries
    /\ shown = [kind |-> "none", ranges |-> <<>>, tag_list |-> <<>>]
    /\ async_queue = <<"refresh">>
    /\ input_panel = "closed"
    /\ tag_name = <<>>
    /\ has_items = FALSE
    /\ items = <<>>
    /\ push_all = FALSE
    /\ remotes = <<>>
    /\ quick_panel = <<>>
    /\ op = NoOp
    /\ trace = <<>>

\* nothing is deferred and no prompt is open
Idle == async_queue = <<>> /\ input_panel = "closed" /\ quick_panel = <<>>

\* every command of the panel, started one at a time with one cursor in the
\* view, and every deferred step and prompt answer that follows
NextFrame ==
    \/ Idle /\ GsTagsRefresh_run
    \/ GsTagsRefresh_run_async
    \/ GsTagsRefresh_append_tags
    \/ Idle /\ \E sel \in SingleSelections : GsTagDelete_run(sel)
    \/ Idle /\ \E sel \in SingleSelections : GsTagViewLog_run(sel, TRUE)
    \/ Idle /\ GsTagCreate_run
    \/ GsTagCreate_run_async
    \/ \E name \in TagNameInputs : GsTagCreate_on_entered_tag(name)
    \/ \E message \in MessageInputs : GsTagCreate_on_entered_message(message)
    \/ Idle /\ \E sel \in SingleSelections, pa \in BOOLEAN :
                  GsTagPush_run(sel, pa)
    \/ GsTagPush_run_async
    \/ \E i \in -1..(Len(quick_panel) - 1) :
         GsTagPush_on_select_remote(i, TRUE)

SpecFrame == InitFrame /\ [][NextFrame]_vars

\* viewing the commit of a selected tag
NextViewLog ==
    \/ GsTagsRefresh_run_async
    \/ GsTagsRefresh_append_tags
    \/ \E sel \in ViewSelections, ok \in BOOLEAN : GsTagViewLog_run(sel, ok)

SpecViewLog == Init /\ [][NextViewLog]_vars

\* the create-tag flow
NextCreate ==
    \/ GsTagsRefresh_run_async
    \/ GsTagsRefresh_append_tags
    \/ GsTagCreate_run
    \/ GsTagCreate_run_async
    \/ \E name \in TagNameInputs : GsTagCreate_on_entered_tag(name)
    \/ \E message \in MessageInputs : GsTagCreate_on_entered_message(message)

SpecCreate == Init /\ [][NextCreate]_vars

(* ---------------- properties of the report ---------------- *)
Displayed(kind) == shown.kind = kind

Stored == ViewId \in DOMAIN view_section_ranges

LocalOf(tl) == sort_tag_entries(tl)[1]

GroupsIn(tl) == sort_tag_entries(tl)[2]

\* the entries a full render of tl puts into the block of group g (0: local)
BlockEntries(tl, g) == IF g = 0 THEN LocalOf(tl) ELSE GroupsIn(tl)[g].entries

\* the reference a tag line stands for
Reference(e) == <<Take(e.sha, ShortHashLen), e.tag>>

\* the text of the selected line, without its newline
LineAt(text, p) ==
    SubSeq(text, line_begin(text, p) + 1, line_end(text, line_begin(text, p)))

\* the lines of the view that show entry e
EntryLines(text, e) ==
    { s \in LineStarts(text) : LineAt(text, s) = tag_line(e) }

\* the text a full render emits for block g (0: local)
BlockText(tl, g) ==
    IF g = 0 THEN LOCAL_TEMPLATE(tag_lines(LocalOf(tl)))
    ELSE REMOTE_TEMPLATE(GroupsIn(tl)[g].remote,
                         tag_lines(GroupsIn(tl)[g].entries))

\* the blocks a full render emits, in emission order
EmittedBlocks(tl) ==
    (IF LocalOf(tl) # <<>> THEN <<0>> ELSE <<>>)
      \o [g \in 1..Len(GroupsIn(tl)) |-> g]

\* C1: every tag entry rendered in the local block or in any remote group's
\* block resolves, from a selection anywhere on its line, to exactly the
\* reference (first 7 characters of sha, name).
C1_RoundTrip ==
    (Displayed("full") /\ Stored) =>
        \A g \in 0..Len(GroupsIn(shown.tag_list)) :
            \A i \in 1..Len(BlockEntries(shown.tag_list, g)) :
                LET e == BlockEntries(shown.tag_list, g)[i]
                IN /\ EntryLines(view_text, e) # {}
                   /\ \A s \in EntryLines(view_text, e) :
                        \A p \in {s, s + IndentLen, line_end(view_text, s)} :
                            resolve_selection(view_text, {p},
                                              view_section_ranges[ViewId])
                              = <<Reference(e)>>

\* C2: after a full refresh of a list with a local block and k >= 1 remote
\* groups the stored sections are one range per emitted block, in emission
\* order, each the exact span of its block; an omitted local block leaves
\* the empty range (0,0) and the first block starts right after the header.
C2_SectionPerBlock ==
    (Displayed("full") /\ Stored) =>
        LET tl == shown.tag_list
            blocks == EmittedBlocks(tl)
            ranges == view_section_ranges[ViewId]
            header_len == Len(VIEW_HEADER(branch_status))
        IN /\ (LocalOf(tl) # <<>> /\ Len(GroupsIn(tl)) >= 1) =>
                /\ Len(ranges) = Len(blocks)
                /\ ranges[1].a = header_len
                /\ \A j \in 1..Len(blocks) :
                     /\ substr(view_text, ranges[j]) = BlockText(tl, blocks[j])
                     /\ j > 1 => ranges[j].a = ranges[j - 1].b
           /\ (LocalOf(tl) = <<>>) => ranges[1] = Region(0, 0)
           /\ (LocalOf(tl) = <<>> /\ Len(GroupsIn(tl)) >= 1) =>
                SubSeq(view_text, header_len + 1,
                       header_len + Len(BlockText(tl, 1))) = BlockText(tl, 1)

NoSections ==
    Stored => \A i \in 1..Len(view_section_ranges[ViewId]) :
                  view_section_ranges[ViewId][i] = Region(0, 0)

\* C3: the stored sections are always those computed with the displayed
\* text; while the loading text is displayed there are no sections and no
\* selection resolves to a reference.
C3_AtomicSwap ==
    /\ Displayed("full") => (Stored /\ view_section_ranges[ViewId] = shown.ranges)
    /\ Displayed("loading") =>
         /\ NoSections
         /\ Stored => \A sel \in ViewSelections :
                        resolve_selection(view_text, sel,
                                          view_section_ranges[ViewId]) = <<>>

HexChars == { HexDigits[i] : i \in 1..Len(HexDigits) }

\* the shape '<indent><short_hash> <name>' of a tag line
IsTagLine(line) ==
    /\ Len(line) > IndentLen + ShortHashLen + 1
    /\ \A i \in 1..IndentLen : line[i] = " "
    /\ \A i \in (IndentLen + 1)..(IndentLen + ShortHashLen) : line[i] \in HexChars
    /\ line[IndentLen + ShortHashLen + 1] = " "
    /\ \A i \in (IndentLen + ShortHashLen + 2)..Len(line) : line[i] \notin Whitespace

\* the cursor positions on lines that lie in a stored section but are not
\* tag lines
NonTagLinesInSections ==
    { p \in CursorPositions(view_text, Len(VIEW_HEADER(branch_status)),
                            StoredRanges) :
        /\ region_within_regions(valid_ranges_of(StoredRanges),
                                 full_line(view_text, p))
        /\ ~IsTagLine(LineAt(view_text, p)) }

NoCallNoFault(tr) == \A i \in 1..Len(tr) : tr[i].k \notin {"git", "fault"}

\* C4: a selected line inside a stored section that is not a tag line (a
\* block title or a blank line) is skipped by delete, push and view-log: no
\* fault, and no repository call made from it.
C4_NonTagLinesSkipped ==
    (Displayed("full") /\ Stored) =>
        \A p \in NonTagLinesInSections :
            LET its == resolve_selection(view_text, {p},
                                         view_section_ranges[ViewId])
            IN /\ NoCallNoFault(delete_items(tag_list, its).trace)
               /\ NoCallNoFault(view_log_items(its, TRUE))
               /\ \A r \in 1..Len(git_remotes) :
                    NoCallNoFault(select_remote(r - 1, git_remotes, FALSE,
                                                TRUE, its, TRUE))

(* ---------------- properties of the commands ---------------- *)
GitCalls(tr) == SelectSeq(tr, LAMBDA e : e.k = "git")

Statuses(tr) == SelectSeq(tr, LAMBDA e : e.k = "status")

\* a (short_hash, name) pair as a tag line yields it
IsReference(item) ==
    /\ Len(item) = 2
    /\ Len(item[1]) = ShortHashLen
    /\ \A i \in 1..Len(item[1]) : item[1][i] \in HexChars

AllReferences(its) == \A i \in 1..Len(its) : IsReference(its[i])

DistinctNames(its) ==
    \A i, j \in 1..Len(its) : i # j => its[i][2] # its[j][2]

RefOf(item) == <<"r","e","f","s","/","t","a","g","s","/">> \o item[2]

\* C5: a push of the selection that resolves to no reference is a no-op: it
\* schedules nothing (so the remotes are not queried and no prompt opens),
\* and no status is emitted and no push issued for it.
C5_EmptyPushNoOp ==
    [][ /\ (op'.name = "push.run" /\ ~op'.flag /\ op'.items = <<>>
              /\ trace' = <<>>) => async_queue' = async_queue
        /\ (op'.name = "push.on_select_remote" /\ ~op'.flag
              /\ op'.items = <<>>) => trace' = <<>> ]_vars

\* C6: a push of n >= 1 selected references to the chosen remote is exactly
\* one push whose refs are the n separate refs refs/tags/<name>.
C6_PushSelectedRefs ==
    (/\ op.name = "push.on_select_remote" /\ ~op.flag /\ op.n >= 0
     /\ has_items /\ op.items # <<>> /\ AllReferences(op.items)
     /\ DistinctNames(op.items)) =>
        /\ Len(GitCalls(trace)) = 1
        /\ GitCalls(trace)[1].a =
             <<"push", remotes[op.n + 1]>>
               \o [i \in 1..Len(op.items) |-> RefOf(op.items[i])]

PushAllChosen ==
    op.name = "push.on_select_remote" /\ op.flag /\ op.n >= 0

PushAllCancelled ==
    op.name = "push.on_select_remote" /\ op.flag /\ op.n = -1

StartThenPushAll ==
    /\ Len(trace) = 3
    /\ trace[1] = Status(START_PUSH_MESSAGE)
    /\ trace[2].k = "git"
    /\ trace[2].a = <<"push", remotes[op.n + 1], "--tags">>

C8_NoRemotesItem ==
    (op.name = "push.run_async" /\ remotes = <<>>) =>
        /\ ~Faulted(trace)
        /\ \E i \in 1..Len(trace) :
             trace[i].k = "quick_panel" /\ Len(trace[i].a) = 1
        /\ GitCalls(trace) = <<>>
        /\ Statuses(trace) = <<>>

CreateCalls(tr) ==
    SelectSeq(tr, LAMBDA e : e.k = "git" /\ Len(e.a) = 4 /\ e.a[1] = "tag")

\* C9: createAnnotatedTag is issued at most once per flow, and only by the
\* message prompt returning without the cancel signal after the name prompt
\* returned a non-empty name; an empty name closes the flow before the
\* message prompt, and a cancelled message prompt closes it, both without a
\* repository call.
C9_CreateOnlyAfterPrompts ==
    [][ /\ Len(CreateCalls(trace')) <= 1
        /\ CreateCalls(trace') # <<>> =>
             /\ op'.name = "create.on_entered_message"
             /\ input_panel = "message" /\ input_panel' = "closed"
             /\ ~op'.flag
             /\ tag_name # <<>>
             /\ CreateCalls(trace')[1].a[2] = tag_name
        /\ (input_panel' = "message" /\ input_panel # "message") =>
             /\ op'.name = "create.on_entered_tag"
             /\ input_panel = "tag"
             /\ op'.text # <<>> /\ tag_name' = op'.text
        /\ (op'.name = "create.on_entered_tag" /\ op'.text = <<>>) =>
             /\ input_panel' = "closed"
             /\ trace' = <<>> /\ tag_list' = tag_list
        /\ (op'.name = "create.on_entered_message" /\ op'.flag) =>
             /\ input_panel' = "closed"
             /\ trace' = <<>> /\ tag_list' = tag_list ]_vars

C9_Witness ==
    /\ op.name = "create.on_entered_message"
    /\ Len(CreateCalls(trace)) = 1
    /\ CreateCalls(trace)[1].ok

DeleteOfReferences ==
    op.name = "delete.run" /\ op.items # <<>> /\ AllReferences(op.items)

DeleteCallFor(e, item) == e.k = "git" /\ e.a = <<"tag", "-d", item[2]>>

\* C10 as stated: deleting n >= 1 resolved references issues exactly n
\* deleteTag calls, by name and in line order, and after the last one exactly
\* one refresh followed by one status message.
C10_DeleteAllThenRefresh ==
    DeleteOfReferences =>
        LET n == Len(op.items)
        IN /\ Len(trace) = n + 2
           /\ \A i \in 1..n : DeleteCallFor(trace[i], op.items[i])
           /\ trace[n + 1] = RefreshCall
           /\ trace[n + 2] = Status(TAG_DELETE_MESSAGE)

\* C10 amended: deleting n >= 1 resolved references issues deleteTag calls
\* by name (never by hash) and in line order, up to the first call that
\* fails; when all n calls succeeded, exactly one refresh followed by one
\* status message come after the last call; when a call fails its fault
\* leaves the handler: no further call, no refresh and no status.
C10_DeleteUntilFailure ==
    DeleteOfReferences =>
        LET n == Len(op.items)
            k == Len(GitCalls(trace))
        IN /\ k >= 1 /\ k <= n
           /\ \A i \in 1..k :
                /\ DeleteCallFor(trace[i], op.items[i])
                /\ i < k => trace[i].ok
           /\ IF trace[k].ok
              THEN /\ k = n
                   /\ SubSeq(trace, k + 1, Len(trace))
                        = <<RefreshCall, Status(TAG_DELETE_MESSAGE)>>
              ELSE SubSeq(trace, k + 1, Len(trace)) = <<Fault("GitSavvyError")>>

C10_Witness ==
    /\ DeleteOfReferences
    /\ Len(op.items) = 2
    /\ Len(trace) = 4
    /\ trace[4] = Status(TAG_DELETE_MESSAGE)

(* ---------------- selections outside the sections ---------------- *)
\* the first and the last offset of every line of the view
LineCursors(text) ==
    LineStarts(text) \cup { line_end(text, s) : s \in LineStarts(text) }

\* the cursors of the view that lie in none of the stored ranges
OutsidePositions ==
    { p \in LineCursors(view_text) :
        \A i \in 1..Len(StoredRanges) :
            ~(StoredRanges[i].a <= p /\ p < StoredRanges[i].b) }

\* the empty selection, and one or two cursors outside every stored range
OutsideSelections ==
    {{}} \cup { {p} : p \in OutsidePositions }
         \cup { {p, q} : p, q \in OutsidePositions
                            \cap CursorPositions(view_text,
                                     Len(VIEW_HEADER(branch_status)),
                                     StoredRanges) }

\* C11: on a report with recorded sections, a selection that is empty or
\* lies outside every recorded range resolves to the empty sequence, and
\* delete on the empty resolution does nothing: no deleteTag call, no
\* refresh, no status message, no fault, and the tags stay as they are.
C11_OutsideSelectionNoOp ==
    /\ Stored =>
          \A sel \in OutsideSelections :
              LET its == resolve_selection(view_text, sel,
                                           view_section_ranges[ViewId])
              IN /\ its = <<>>
                 /\ delete_items(tag_list, its)
                      = [tag_list |-> tag_list, trace |-> <<>>]
    /\ (op.name = "delete.run" /\ op.items = <<>> /\ Stored) => trace = <<>>

C11_Witness ==
    /\ op.name = "delete.run" /\ op.items = <<>> /\ trace = <<>>
    /\ Displayed("full") /\ Stored /\ LocalOf(shown.tag_list) # <<>>

(* ---------------- duplicates in a selection ---------------- *)
DeletedNames(tr) ==
    [i \in 1..Len(GitCalls(tr)) |-> GitCalls(tr)[i].a[Len(GitCalls(tr)[i].a)]]

Distinct(seq) == \A i, j \in 1..Len(seq) : i # j => seq[i] # seq[j]

\* C12: the resolved references are de-duplicated: when the selection
\* covers the line of a tag in the local block and the line of the same tag
\* in a remote block, delete issues at most one deleteTag call per tag name
\* and push names each ref at most once.
C12_ResolvedOnce ==
    /\ (op.name = "delete.run" /\ AllReferences(op.items)) =>
          Distinct(DeletedNames(trace))
    /\ (op.name = "push.run" /\ ~op.flag /\ AllReferences(op.items)) =>
          Distinct(op.items)

(* ---------------- viewing the log ---------------- *)
LogCallFor(e, hash) ==
    e.k = "git" /\ e.a = <<"log", "-1", "--pretty=medium", hash>>

\* C13: view-log on a selection resolving to n >= 1 references issues
\* exactly one showCommitLog call, for the short hash of the first resolved
\* reference, and none for the others; on an empty resolution it issues no
\* call.
C13_LogOfFirstOnly ==
    op.name = "view_log.run" =>
        /\ op.items = <<>> => GitCalls(trace) = <<>>
        /\ (op.items # <<>> /\ AllReferences(op.items)) =>
              /\ Len(GitCalls(trace)) = 1
              /\ LogCallFor(trace[1], op.items[1][1])

C13_Witness ==
    /\ op.name = "view_log.run"
    /\ Len(op.items) = 2 /\ AllReferences(op.items)
    /\ op.items[1][1] # op.items[2][1]
    /\ Len(GitCalls(trace)) = 1 /\ trace[1].ok

(* ---------------- the message of a created tag ---------------- *)
\* C14: when the message prompt returns without the cancel signal, the tag
\* created is the one named in the name prompt of the same flow; a blank
\* message is replaced by the default template formatted with that name,
\* and a non-blank message is passed unchanged on standard input.
C14_DefaultMessage ==
    [][ /\ tag_name' # tag_name =>
             /\ op'.name = "create.on_entered_tag"
             /\ input_panel = "tag" /\ input_panel' = "message"
             /\ tag_name' = op'.text
        /\ op'.name = "create.on_entered_message" =>
             /\ input_panel = "message" /\ tag_name' = tag_name
        /\ (op'.name = "create.on_entered_message" /\ ~op'.flag) =>
             /\ Len(CreateCalls(trace')) = 1
             /\ trace'[1].k = "git"
             /\ trace'[1].a = <<"tag", tag_name, "-F", "-">>
             /\ trace'[1].stdin = (IF op'.text = <<>>
                                   THEN default_tag_message(tag_name)
                                   ELSE op'.text) ]_vars

C14_Witness ==
    /\ op.name = "create.on_entered_message" /\ ~op.flag /\ op.text = <<>>
    /\ Len(CreateCalls(trace)) = 1 /\ trace[1].ok
    /\ trace[1].stdin = default_tag_message(tag_name)
    /\ tag_name = TagName(MaxLocal)

(* ---------------- a repository without tags ---------------- *)
\* C15: a full refresh of a repository with no tags displays the header,
\* the literal no-tags message and the key-binding footer, and stores no
\* section: every stored range is the empty range (0,0) and no line of the
\* report resolves to a reference.
C15_NoTagsReport ==
    (Displayed("full") /\ shown.tag_list = <<>>) =>
        /\ view_text = VIEW_HEADER(branch_status) \o NO_TAGS_MESSAGE
                          \o KEY_BINDINGS_MENU
        /\ Stored /\ NoSections
        /\ \A p \in LineCursors(view_text) :
              resolve_selection(view_text, {p}, view_section_ranges[ViewId])
                = <<>>

C15_Witness ==
    /\ op.name = "append_tags" /\ Displayed("full") /\ tag_list = <<>>
    /\ Stored /\ NoSections

(* ---------------- the stored ranges ---------------- *)
Overlap(r1, r2) == r1.a < r2.b /\ r2.a < r1.b

\* C16: after a full refresh of a non-empty tag list the stored ranges are
\* pairwise non-overlapping, each satisfies 0 <= start <= end <= length of
\* the displayed text, and every non-empty one lies after the header and
\* before the key-binding footer.
C16_RangesWithinReport ==
    (Displayed("full") /\ Stored /\ shown.tag_list # <<>>) =>
        LET ranges == view_section_ranges[ViewId]
            header_len == Len(VIEW_HEADER(branch_status))
            footer == Len(view_text) - Len(KEY_BINDINGS_MENU)
        IN /\ \A i, j \in 1..Len(ranges) :
                 i # j => ~Overlap(ranges[i], ranges[j])
           /\ \A i \in 1..Len(ranges) :
                 /\ 0 <= ranges[i].a /\ ranges[i].a <= ranges[i].b
                 /\ ranges[i].b <= Len(view_text)
                 /\ ranges[i].a < ranges[i].b =>
                       (header_len <= ranges[i].a /\ ranges[i].b <= footer)

C16_Witness ==
    /\ op.name = "append_tags" /\ Displayed("full") /\ Stored
    /\ LocalOf(shown.tag_list) # <<>> /\ GroupsIn(shown.tag_list) # <<>>
    /\ \A i \in 1..Len(view_section_ranges[ViewId]) :
          view_section_ranges[ViewId][i].a < view_section_ranges[ViewId][i].b

(* ---------------- a report without stored sections ---------------- *)
SelectionCommand ==
    \/ op.name \in {"delete.run", "view_log.run"}
    \/ op.name = "push.run" /\ ~op.flag

\* C17: delete, push of the selection and view-log on a report for which
\* no full refresh has stored sections yet take the sections as empty: the
\* selection resolves to nothing, no fault is raised and no repository call
\* is issued.
C17_UnpopulatedIsEmpty ==
    (SelectionCommand /\ ~Stored) =>
        /\ op.items = <<>>
        /\ ~Faulted(trace)
        /\ GitCalls(trace) = <<>>

(* ---------------- repeated refreshes ---------------- *)
\* C18: whatever refreshes were requested, and however their deferred
\* steps were queued, once no deferred step is left the view shows a full
\* report, and the text and the stored ranges are those of one render of
\* one tag list; at the step that empties the queue that list is the
\* repository's current one.
C18_LastRefreshWins ==
    async_queue = <<>> =>
        /\ Displayed("full") /\ Stored
        /\ view_text = get_contents(branch_status, shown.tag_list).contents
        /\ view_section_ranges[ViewId]
             = get_contents(branch_status, shown.tag_list).ranges
        /\ op.name = "append_tags" => shown.tag_list = tag_list

C18_Witness ==
    /\ async_queue = <<>> /\ op.name = "append_tags"
    /\ Displayed("full") /\ Stored
    /\ shown.tag_list = tag_list
    /\ LocalOf(tag_list) = <<>> /\ Len(GroupsIn(tag_list)) = 1
    /\ view_section_ranges[ViewId][1] = Region(0, 0)

(* ---------------- who writes view_section_ranges ---------------- *)
Count(q, x) == Len(SelectSeq(q, LAMBDA e : e = x))

CreateOps ==
    {"create.run", "create.run_async", "create.on_entered_tag",
     "create.on_entered_message"}

\* C19: view_section_ranges is written only by append_tags, and only at
\* the id of the refreshed view: delete, push, view-log, create and the
\* loading step leave the dict as it is, and a refresh leaves the entry of
\* every other view as it is; create requests no refresh.
C19_OnlyRefreshWrites ==
    [][ /\ view_section_ranges' # view_section_ranges =>
             /\ op'.name = "append_tags"
             /\ DOMAIN view_section_ranges'
                  = DOMAIN view_section_ranges \cup {ViewId}
             /\ \A id \in DOMAIN view_section_ranges \ {ViewId} :
                  view_section_ranges'[id] = view_section_ranges[id]
        /\ op'.name \in CreateOps =>
             /\ RefreshCalls(trace') = 0
             /\ Count(async_queue', "refresh") <= Count(async_queue, "refresh")
      ]_vars

C19_Witness ==
    /\ op.name = "create.on_entered_message"
    /\ Len(CreateCalls(trace)) = 1 /\ trace[1].ok
    /\ Stored /\ OtherViewId \in DOMAIN view_section_ranges
    /\ view_section_ranges[ViewId] = shown.ranges
    /\ shown.tag_list # tag_list
    /\ async_queue = <<>>

(* ---------------- overlapping pushes ---------------- *)
\* a push command has been run and its remote has not been chosen yet
PushPending == Count(async_queue, "push") > 0 \/ quick_panel # <<>>

\* C20: the push issued when a remote is chosen uses the push_all flag and
\* the items of the run that opened the prompt: from a run of the push
\* command until its remote is chosen, no other run replaces the flag or
\* the items it left for its prompt.
C20_PushUsesOwnArguments ==
    [][ PushPending => (push_all' = push_all /\ items' = items) ]_vars

====
